---- MODULE Spec2Model ----
(***************************************************************************)
(* A model of the Befunge-93 engine of src/src/b93.rs: the loader          *)
(* B93::from_stream, which turns a byte stream into the 25 x 80 playfield, *)
(* and the single-step transition B93::step with its helpers.              *)
(*                                                                         *)
(* Bytes are the integers 0..255.  The playfield [[u8; 80]; 25] starts as  *)
(* all spaces, so it is recorded by its cells that hold another byte: a    *)
(* function from the coordinates <<row, column>> of those cells to their   *)
(* bytes.  Cell reads a cell and Store writes one; both are defined only   *)
(* for a row in 0..H-1 and a column in 0..W-1, as an index outside the     *)
(* array is a panic in the code.  The stack is a sequence whose last       *)
(* element is the top (Vec::push / Vec::pop).                              *)
(*                                                                         *)
(* step takes its reader, writer and random generator as arguments of each *)
(* call, so the model draws, for each call, the reader's content and the   *)
(* generator's value, and records what the call returned, what it wrote to *)
(* the writer and how many bytes it consumed from the reader.  The reader  *)
(* and the writer are in-memory ASCII channels: the only I/O failure is    *)
(* read_exact meeting the end of the reader.                               *)
(*                                                                         *)
(* Stack values are i64 in the code.  The model keeps every stack value    *)
(* within -MaxVal..MaxVal (a guard of Step), far inside the i64 range, so  *)
(* no modelled '+', '-' or '*' overflows.                                  *)
(***************************************************************************)
EXTENDS Integers, Sequences, FiniteSets, TLC

\* ------------------------------------------------------------ constants

H == 25
W == 80

LF == 10
CR == 13
SP == 32
ChBang == 33
ChQuote == 34
ChHash == 35
ChDollar == 36
ChPercent == 37
ChAmp == 38
ChStar == 42
ChPlus == 43
ChComma == 44
ChMinus == 45
ChDot == 46
ChSlash == 47
ChColon == 58
ChLt == 60
ChGt == 62
ChQuestion == 63
ChAt == 64
ChBackslash == 92
ChCaret == 94
ChUnderscore == 95
ChBacktick == 96
Ch_g == 103
Ch_p == 112
Ch_v == 118
ChPipe == 124
ChTilde == 126

\* ------------------------------------------------------------ bounds

\* The longest stack a step may leave (Vec<i64> grows without bound).
MaxStack == 4
\* The largest magnitude of a stack value a step may leave.
MaxVal == 40000
\* The length of the exhaustively enumerated short loader streams.
MaxLen == 4

\* ------------------------------------------------------------ helpers

Rep(b, n) == [k \in 1..n |-> b]

RECURSIVE Times(_, _)
Times(s, n) == IF n = 0 THEN <<>> ELSE Times(s, n - 1) \o s

SeqsUpTo(S, n) == UNION {[1..k -> S] : k \in 0..n}

\* ------------------------------------------------------------ the engine

\* [[b' '; 80]; 25]: no cell holds a byte other than the space.
BlankPlayfield == [x \in {} |-> SP]

\* pf[r][c]
Cell(pf, r, c) ==
    CASE r \in 0..(H - 1) /\ c \in 0..(W - 1) ->
           IF <<r, c>> \in DOMAIN pf THEN pf[<<r, c>>] ELSE SP

\* pf[r][c] = b
Store(pf, r, c, b) ==
    CASE r \in 0..(H - 1) /\ c \in 0..(W - 1) ->
           IF b = SP THEN [x \in DOMAIN pf \ {<<r, c>>} |-> pf[x]]
           ELSE [x \in DOMAIN pf \cup {<<r, c>>} |-> IF x = <<r, c>> THEN b ELSE pf[x]]

new(pf) ==
    [playfield |-> pf, stack |-> <<>>, i |-> 0, j |-> 0, dir |-> "Right",
     bridge |-> FALSE, string |-> FALSE]

Default == new(BlankPlayfield)

\* ------------------------------------------------------------ the loader

\* The loop's locals before the first byte.
LoopInit ==
    [playfield |-> BlankPlayfield, i |-> 0, j |-> 0, maybe_crlf |-> FALSE,
     err |-> "Ok"]

\* One iteration of `for b in buf`; err # "Ok" is the early return.
LoopBody(s, b) ==
    IF s.err # "Ok" THEN s
    ELSE IF s.maybe_crlf /\ b = LF THEN [s EXCEPT !.maybe_crlf = FALSE]
    ELSE LET s1 == IF b = CR THEN [s EXCEPT !.maybe_crlf = TRUE] ELSE s
         IN  IF b = CR \/ b = LF THEN [s1 EXCEPT !.i = @ + 1, !.j = 0]
             ELSE IF s1.i >= H THEN [s1 EXCEPT !.err = "PlayfieldTooWide"]
             ELSE IF s1.j >= W THEN [s1 EXCEPT !.err = "PlayfieldTooTall"]
             ELSE [s1 EXCEPT !.playfield = Store(@, s1.i, s1.j, b), !.j = @ + 1]

\* The iterations of the loop for the bytes buf[lo..hi] in order, from the
\* locals s (the range is halved only to keep the evaluation shallow).
RECURSIVE Run(_, _, _, _)
Run(s, buf, lo, hi) ==
    IF lo > hi THEN s
    ELSE IF lo = hi THEN LoopBody(s, buf[lo])
    ELSE LET mid == (lo + hi) \div 2
             left == Run(s, buf, lo, mid)
         IN  IF left.err # "Ok" THEN left ELSE Run(left, buf, mid + 1, hi)

\* The loop's locals after the first n bytes of buf.
Loop(buf, n) == Run(LoopInit, buf, 1, n)

from_stream(buf) ==
    LET s == Loop(buf, Len(buf))
    IN  IF s.err # "Ok" THEN [res |-> s.err, self |-> Default]
        ELSE [res |-> "Ok", self |-> new(s.playfield)]

\* ------------------------------------------------------------ step's results

\* What a call of step returns: Ok(Some(())) is "continue", Ok(None) is
\* "halt", Err(e) is the name of e with its payload (n: the i64 or u8, s: the
\* String), and "panic" is a division trap.  "none" marks a match arm that
\* falls through to the code after the match.
Ret(tag, n, s) == [tag |-> tag, n |-> n, s |-> s]
OkSome == Ret("continue", 0, <<>>)
OkNone == Ret("halt", 0, <<>>)
NoReturn == Ret("none", 0, <<>>)

\* The effect of a call, or of a match arm: the engine, the returned value,
\* the bytes written to wtr and the number of bytes consumed from rdr.
Arm(self, ret, wrote, nread) ==
    [self |-> self, ret |-> ret, wrote |-> wrote, nread |-> nread]

Fall(self) == Arm(self, NoReturn, <<>>, 0)

\* ------------------------------------------------------------ helpers of step

next_instruction(self) == Cell(self.playfield, self.i, self.j)

\* advance_pc without the wrap from row 0 to row 24.
advance_pc_NoWrapUp(self) ==
    CASE self.dir = "Up" -> [self EXCEPT !.i = self.i - 1]
      [] self.dir = "Down" -> [self EXCEPT !.i = (self.i + 1) % 25]
      [] self.dir = "Left" ->
           [self EXCEPT !.j = IF self.j = 0 THEN 79 ELSE self.j - 1]
      [] self.dir = "Right" -> [self EXCEPT !.j = (self.j + 1) % 80]

\* advance_pc wrapping Down one row early.
advance_pc_WrapDownEarly(self) ==
    CASE self.dir = "Up" ->
           [self EXCEPT !.i = IF self.i = 0 THEN 24 ELSE self.i - 1]
      [] self.dir = "Down" -> [self EXCEPT !.i = (self.i + 1) % 24]
      [] self.dir = "Left" ->
           [self EXCEPT !.j = IF self.j = 0 THEN 79 ELSE self.j - 1]
      [] self.dir = "Right" -> [self EXCEPT !.j = (self.j + 1) % 80]

advance_pc(self) ==
    CASE self.dir = "Up" ->
           [self EXCEPT !.i = IF self.i = 0 THEN 24 ELSE self.i - 1]
      [] self.dir = "Down" -> [self EXCEPT !.i = (self.i + 1) % 25]
      [] self.dir = "Left" ->
           [self EXCEPT !.j = IF self.j = 0 THEN 79 ELSE self.j - 1]
      [] self.dir = "Right" -> [self EXCEPT !.j = (self.j + 1) % 80]

push(self, val) == [self EXCEPT !.stack = Append(@, val)]

\* pop yielding -1 from an empty stack.
pop_MinusOne(self) ==
    IF self.stack = <<>> THEN [val |-> -1, self |-> self]
    ELSE [val |-> self.stack[Len(self.stack)],
          self |-> [self EXCEPT !.stack = SubSeq(@, 1, Len(@) - 1)]]

\* Vec::pop().unwrap_or(0): the value, and the engine after the pop.
pop(self) ==
    IF self.stack = <<>> THEN [val |-> 0, self |-> self]
    ELSE [val |-> self.stack[Len(self.stack)],
          self |-> [self EXCEPT !.stack = SubSeq(@, 1, Len(@) - 1)]]

\* peek yielding the top of the stack.
peek_Top(self) == IF self.stack = <<>> THEN 0 ELSE self.stack[Len(self.stack)]

\* Vec::first().copied().unwrap_or(0)
peek(self) == IF self.stack = <<>> THEN 0 ELSE self.stack[1]

\* ------------------------------------------------------------ i64 and text

Abs(x) == IF x < 0 THEN -x ELSE x

\* i64 '/' and '%': truncation toward zero, the remainder has the
\* dividend's sign.  The divisor is not 0 where these are used.
TruncDiv(x, y) ==
    LET q == Abs(x) \div Abs(y) IN IF (x < 0) # (y < 0) THEN -q ELSE q

TruncRem(x, y) == x - y * TruncDiv(x, y)

\* `val as u8`: the low eight bits.
AsU8(val) == val % 256

IsDigit(b) == b \in 48..57

RECURSIVE Digits(_)
Digits(n) == IF n < 10 THEN <<48 + n>> ELSE Digits(n \div 10) \o <<48 + (n % 10)>>

\* Display of an i64: what "{}" formats.
Decimal(v) == IF v < 0 THEN <<ChMinus>> \o Digits(-v) ELSE Digits(v)

\* BufRead::read_line: the bytes up to and including the first LF, or all.
read_line(rdr) ==
    IF \E k \in 1..Len(rdr) : rdr[k] = LF
    THEN SubSeq(rdr, 1, CHOOSE k \in 1..Len(rdr) :
                          rdr[k] = LF /\ \A m \in 1..(k - 1) : rdr[m] # LF)
    ELSE rdr

\* char::is_whitespace on ASCII.
IsWhitespace(b) == b \in {9, 10, 11, 12, 13, SP}

\* str::trim
trim(s) ==
    IF \A k \in 1..Len(s) : IsWhitespace(s[k]) THEN <<>>
    ELSE LET lo == CHOOSE k \in 1..Len(s) :
                     ~IsWhitespace(s[k]) /\ \A m \in 1..(k - 1) : IsWhitespace(s[m])
             hi == CHOOSE k \in 1..Len(s) :
                     ~IsWhitespace(s[k]) /\ \A m \in (k + 1)..Len(s) : IsWhitespace(s[m])
         IN  SubSeq(s, lo, hi)

RECURSIVE DigitsValue(_)
DigitsValue(s) ==
    IF s = <<>> THEN 0
    ELSE 10 * DigitsValue(SubSeq(s, 1, Len(s) - 1)) + (s[Len(s)] - 48)

\* str::parse::<i64>: an optional sign, then one or more decimal digits.
parse(s) ==
    LET signed == s # <<>> /\ s[1] \in {ChPlus, ChMinus}
        ds == IF signed THEN Tail(s) ELSE s
    IN  IF ds = <<>> \/ \E k \in 1..Len(ds) : ~IsDigit(ds[k])
        THEN [ok |-> FALSE, val |-> 0]
        ELSE [ok |-> TRUE,
              val |-> IF signed /\ s[1] = ChMinus THEN -DigitsValue(ds)
                      ELSE DigitsValue(ds)]

\* The mapping with Left and Right exchanged.
RandomDirection_Swapped(rnd) ==
    CASE rnd = 0 -> "Up" [] rnd = 1 -> "Down" [] rnd = 2 -> "Right" [] rnd = 3 -> "Left"

\* gen_range(0..4) mapped to a direction.
RandomDirection(rnd) ==
    CASE rnd = 0 -> "Up" [] rnd = 1 -> "Down" [] rnd = 2 -> "Left" [] rnd = 3 -> "Right"

\* ------------------------------------------------------------ step

\* The arms of the match on the cell in normal mode, one per instruction.
\* Where an arm pops twice, pop(pop(self).self) is the second pop.

Panic == Ret("panic", 0, <<>>)

ArmSpace(self) == Fall(self)

\* '@' halting after advancing the pointer.
ArmAt_Advances(self) == Arm(advance_pc(self), OkNone, <<>>, 0)

ArmAt(self) == Arm(self, OkNone, <<>>, 0)

ArmDir(self, d) == Fall([self EXCEPT !.dir = d])

ArmQuestion(self, rnd) == Fall([self EXCEPT !.dir = RandomDirection(rnd)])

ArmQuote(self) == Fall([self EXCEPT !.string = TRUE])

ArmPlus(self) ==
    LET x == pop(self)
        y == pop(x.self)
    IN  Fall(push(y.self, x.val + y.val))

ArmMinus(self) ==
    LET x == pop(self)
        y == pop(x.self)
    IN  Fall(push(y.self, x.val - y.val))

ArmStar(self) ==
    LET x == pop(self)
        y == pop(x.self)
    IN  Fall(push(y.self, x.val * y.val))

\* x / y panics when y is 0.
ArmSlash(self) ==
    LET x == pop(self)
        y == pop(x.self)
    IN  IF y.val = 0 THEN Arm(y.self, Panic, <<>>, 0)
        ELSE Fall(push(y.self, TruncDiv(x.val, y.val)))

\* x % y panics when y is 0.
ArmPercent(self) ==
    LET x == pop(self)
        y == pop(x.self)
    IN  IF y.val = 0 THEN Arm(y.self, Panic, <<>>, 0)
        ELSE Fall(push(y.self, TruncRem(x.val, y.val)))

ArmBang(self) ==
    LET v == pop(self)
    IN  Fall(push(v.self, IF v.val # 0 THEN 0 ELSE 1))

ArmUnderscore(self) ==
    LET v == pop(self)
    IN  Fall([v.self EXCEPT !.dir = IF v.val # 0 THEN "Left" ELSE "Right"])

ArmPipe(self) ==
    LET v == pop(self)
    IN  Fall([v.self EXCEPT !.dir = IF v.val # 0 THEN "Up" ELSE "Down"])

ArmAmp(self, rdr) ==
    LET buf == read_line(rdr)
        val == parse(trim(buf))
    IN  IF val.ok THEN Arm(push(self, val.val), NoReturn, <<>>, Len(buf))
        ELSE Arm(self, Ret("InvalidNumeric", 0, buf), <<>>, Len(buf))

\* read_exact of one byte fails at the end of the reader.
ArmTilde(self, rdr) ==
    IF rdr = <<>> THEN Arm(self, Ret("IOError", 0, <<>>), <<>>, 0)
    ELSE Arm(push(self, rdr[1]), NoReturn, <<>>, 1)

ArmDot(self) ==
    LET v == pop(self)
    IN  Arm(v.self, NoReturn, Decimal(v.val) \o <<SP>>, 0)

\* ',' putting the value back on the stack when it fails.
ArmComma_Rollback(self) ==
    LET val == pop(self)
    IN  IF val.val < 0 \/ val.val > 127
        THEN Arm(self, Ret("InvalidCharacter", val.val, <<>>), <<>>, 0)
        ELSE Arm(val.self, NoReturn, <<val.val>>, 0)

ArmComma(self) ==
    LET val == pop(self)
    IN  IF val.val < 0 \/ val.val > 127
        THEN Arm(val.self, Ret("InvalidCharacter", val.val, <<>>), <<>>, 0)
        ELSE Arm(val.self, NoReturn, <<val.val>>, 0)

ArmHash(self) == Fall([self EXCEPT !.bridge = TRUE])

ArmColon(self) == Fall(push(self, peek(self)))

ArmDollar(self) == Fall(pop(self).self)

ArmBackslash(self) ==
    LET x == pop(self)
        y == pop(x.self)
    IN  Fall(push(push(y.self, x.val), y.val))

ArmBacktick(self) ==
    LET x == pop(self)
        y == pop(x.self)
    IN  Fall(push(y.self, IF x.val > y.val THEN 1 ELSE 0))

\* 'g' pushing 0 for coordinates outside the playfield.
Arm_g_PushesZero(self) ==
    LET y == pop(self)
        x == pop(y.self)
    IN  IF y.val < 0 \/ y.val >= 80 \/ x.val < 0 \/ x.val >= 25
        THEN Fall(push(x.self, 0))
        ELSE Fall(push(x.self, Cell(x.self.playfield, x.val, y.val)))

Arm_g(self) ==
    LET y == pop(self)
        x == pop(y.self)
    IN  IF y.val < 0 \/ y.val >= 80 \/ x.val < 0 \/ x.val >= 25
        THEN Fall(push(x.self, SP))
        ELSE Fall(push(x.self, Cell(x.self.playfield, x.val, y.val)))

\* 'p' storing the value without `as u8`.
Arm_p_NoTruncation(self) ==
    LET y == pop(self)
        x == pop(y.self)
        val == pop(x.self)
    IN  IF y.val >= 0 /\ y.val < 80 /\ x.val >= 0 /\ x.val < 25
        THEN Fall([val.self EXCEPT
                     !.playfield = Store(@, x.val, y.val, val.val)])
        ELSE Fall(val.self)

\* 'p' wrapping coordinates outside the playfield into it.
Arm_p_Wraps(self) ==
    LET y == pop(self)
        x == pop(y.self)
        val == pop(x.self)
    IN  Fall([val.self EXCEPT
                !.playfield = Store(@, x.val % 25, y.val % 80, AsU8(val.val))])

Arm_p(self) ==
    LET y == pop(self)
        x == pop(y.self)
        val == pop(x.self)
    IN  IF y.val >= 0 /\ y.val < 80 /\ x.val >= 0 /\ x.val < 25
        THEN Fall([val.self EXCEPT
                     !.playfield = Store(@, x.val, y.val, AsU8(val.val))])
        ELSE Fall(val.self)

\* The last arm moving the pointer before it fails.
ArmOther_Advances(self, b) ==
    Arm(advance_pc(self), Ret("InvalidInstruction", b, <<>>), <<>>, 0)

ArmOther(self, b) == Arm(self, Ret("InvalidInstruction", b, <<>>), <<>>, 0)

\* The match on the cell c in normal mode.
Dispatch(self, c, rdr, rnd) ==
    CASE c = SP -> ArmSpace(self)
      [] c = ChAt -> ArmAt(self)
      [] c = ChCaret -> ArmDir(self, "Up")
      [] c = Ch_v -> ArmDir(self, "Down")
      [] c = ChLt -> ArmDir(self, "Left")
      [] c = ChGt -> ArmDir(self, "Right")
      [] c = ChQuestion -> ArmQuestion(self, rnd)
      [] c = ChQuote -> ArmQuote(self)
      [] c = ChPlus -> ArmPlus(self)
      [] c = ChMinus -> ArmMinus(self)
      [] c = ChStar -> ArmStar(self)
      [] c = ChSlash -> ArmSlash(self)
      [] c = ChPercent -> ArmPercent(self)
      [] c = ChBang -> ArmBang(self)
      [] c = ChUnderscore -> ArmUnderscore(self)
      [] c = ChPipe -> ArmPipe(self)
      [] c = ChAmp -> ArmAmp(self, rdr)
      [] c = ChTilde -> ArmTilde(self, rdr)
      [] c = ChDot -> ArmDot(self)
      [] c = ChComma -> ArmComma(self)
      [] c = ChHash -> ArmHash(self)
      [] c = ChColon -> ArmColon(self)
      [] c = ChDollar -> ArmDollar(self)
      [] c = ChBackslash -> ArmBackslash(self)
      [] c = ChBacktick -> ArmBacktick(self)
      [] c = Ch_g -> Arm_g(self)
      [] c = Ch_p -> Arm_p(self)
      [] OTHER -> ArmOther(self, c)

\* The bridge branch leaving the flag set.
BridgeStep_KeepsFlag(self) == Arm(advance_pc(self), OkSome, <<>>, 0)

\* The bridge branch of step.
BridgeStep(self) ==
    Arm(advance_pc([self EXCEPT !.bridge = FALSE]), OkSome, <<>>, 0)

\* The string-mode branch halting on '@' as normal mode does.
StringStep_HaltsOnAt(self) ==
    LET c == next_instruction(self)
        s1 == IF c = ChQuote THEN [self EXCEPT !.string = FALSE] ELSE push(self, c)
    IN  IF c = ChAt THEN Arm(self, OkNone, <<>>, 0)
        ELSE Arm(advance_pc(s1), OkSome, <<>>, 0)

\* The string-mode branch setting the bridge flag on '#'.
StringStep_RunsHash(self) ==
    LET c == next_instruction(self)
        s1 == IF c = ChQuote THEN [self EXCEPT !.string = FALSE]
              ELSE IF c = ChHash THEN [self EXCEPT !.bridge = TRUE]
              ELSE push(self, c)
    IN  Arm(advance_pc(s1), OkSome, <<>>, 0)

\* The string-mode branch of step.
StringStep(self) ==
    LET c == next_instruction(self)
        s1 == IF c = ChQuote THEN [self EXCEPT !.string = FALSE] ELSE push(self, c)
    IN  Arm(advance_pc(s1), OkSome, <<>>, 0)

\* One call of step on the engine self with the reader's content rdr and the
\* generator's value rnd.
step(self, rdr, rnd) ==
    IF self.bridge THEN BridgeStep(self)
    ELSE IF self.string THEN StringStep(self)
    ELSE LET a == Dispatch(self, next_instruction(self), rdr, rnd)
         IN  IF a.ret = NoReturn
             THEN Arm(advance_pc(a.self), OkSome, a.wrote, a.nread)
             ELSE a

\* ------------------------------------------------------------ inputs

\* The bytes that are instructions (b93.rs:141-265).
Instructions ==
    {SP, ChAt, ChCaret, Ch_v, ChLt, ChGt, ChQuestion, ChQuote, ChPlus, ChMinus,
     ChStar, ChSlash, ChPercent, ChBang, ChUnderscore, ChPipe, ChAmp, ChTilde,
     ChDot, ChComma, ChHash, ChColon, ChDollar, ChBackslash, ChBacktick, Ch_g,
     Ch_p}

\* The cells tried under the bridge and in string mode: every instruction,
\* and '0', 'A' and byte 200, which are none.
Cells == Instructions \cup {48, 65, 200}

\* '#', a cell, '@': the bridge over every kind of cell.
BridgePrograms == {<<ChHash, c, ChAt>> : c \in Cells}

\* '"', a cell, '"', '@': string mode on every kind of cell.
StringPrograms == {<<ChQuote, c, ChQuote, ChAt>> : c \in Cells}

\* The operands pushed in string mode before an instruction: none, one, two
\* or three values.
Operands == {<<>>, <<65>>, <<65, 66>>, <<7, 2>>, <<7, 0>>, <<65, 1, 2>>}

\* '"', operands, '"', an instruction, '.', '@': every instruction on stacks
\* of every modelled length.
StackPrograms ==
    {<<ChQuote>> \o s \o <<ChQuote, c, ChDot, ChAt>> : s \in Operands, c \in Instructions}

\* Further byte streams given to from_stream in the specification of the
\* engine, chosen one by one.
\* A byte without a name is written as its number: 65 'A', 66 'B', 48 '0',
\* 57 '9', 200 a byte above 127, 0..25 operands pushed in string mode.
Programs ==
  {
    \* Movement and wraparound
    <<>>,   \* (empty)
    <<ChAt>>,   \* @
    <<SP, ChAt>>,   \*  @
    <<ChCaret>>,   \* ^
    <<Ch_v>>,   \* v
    <<ChLt>>,   \* <
    <<ChGt>>,   \* >
    <<ChQuestion>>,   \* ?
    <<ChPipe>>,   \* |
    <<ChUnderscore, ChAt>>,   \* _@
    <<Ch_v, LF, ChAt>>,   \* v\n@
    <<Ch_v, CR, LF, ChGt, ChAt>>,   \* v\r\n>@
    <<ChLt, ChAt>>,   \* <@
    \* Every instruction on an empty stack
    <<ChDollar, ChDot, ChAt>>,   \* $.@
    <<ChDot, ChDot, ChAt>>,   \* ..@
    <<ChBang, ChDot, ChAt>>,   \* !.@
    <<ChColon, ChDot, ChAt>>,   \* :.@
    <<ChBackslash, ChDot, ChAt>>,   \* \.@
    <<ChBacktick, ChDot, ChAt>>,   \* `.@
    <<ChPlus, ChDot, ChAt>>,   \* +.@
    <<ChMinus, ChDot, ChAt>>,   \* -.@
    <<ChStar, ChDot, ChAt>>,   \* *.@
    <<Ch_g, ChDot, ChAt>>,   \* g.@
    <<ChComma, ChAt>>,   \* ,@
    <<ChSlash, ChAt>>,   \* /@
    <<ChPercent, ChAt>>,   \* %@
    <<Ch_p, ChAt>>,   \* p@
    <<ChUnderscore, ChDot, ChAt>>,   \* _.@
    \* The bridge
    <<ChHash, ChAt, ChAt>>,   \* #@@
    <<ChHash, ChQuote, ChAt>>,   \* #"@
    <<ChHash, 48, ChAt>>,   \* #0@
    <<ChHash, Ch_p, ChAt>>,   \* #p@
    <<ChHash, ChHash, ChAt>>,   \* ##@
    <<ChHash>>,   \* #
    <<ChLt, ChHash>>,   \* <#
    <<Ch_v, LF, ChHash, LF, ChAt, LF, ChAt>>,   \* v\n#\n@\n@
    \* String mode
    <<ChQuote, 65, 66, ChQuote, ChComma, ChComma, ChAt>>,   \* "AB",,@
    <<ChQuote, ChAt, ChHash, 48, ChQuote, ChAt>>,   \* "@#0"@
    <<ChQuote, 200, ChQuote, ChComma, ChAt>>,   \* "\xc8",@
    <<ChQuote>>,   \* "
    <<ChQuote, Ch_p, ChQuote, ChAt>>,   \* "p"@
    <<Ch_v, LF, ChQuote, LF, 65, LF, ChQuote, LF, ChAt>>,   \* v\n"\nA\n"\n@
    \* Bytes that are no instruction
    <<48>>,   \* 0
    <<65>>,   \* A
    <<1>>,   \* \x01
    <<200>>,   \* \xc8
    <<SP, 57>>,   \*  9
    \* Input
    <<ChAmp, ChDot, ChAt>>,   \* &.@
    <<ChTilde, ChDot, ChAt>>,   \* ~.@
    <<ChAmp, ChComma, ChAt>>,   \* &,@
    <<ChTilde, ChComma, ChAt>>,   \* ~,@
    \* Arithmetic and comparison
    <<ChQuote, 7, 2, ChQuote, ChMinus, ChDot, ChAt>>,   \* "\x07\x02"-.@
    <<ChQuote, 3, 4, ChQuote, ChPlus, ChDot, ChAt>>,   \* "\x03\x04"+.@
    <<ChQuote, 7, 2, ChQuote, ChStar, ChDot, ChAt>>,   \* "\x07\x02"*.@
    <<ChQuote, 2, 7, ChQuote, ChSlash, ChDot, ChAt>>,   \* "\x02\x07"/.@
    <<ChQuote, 2, 7, ChQuote, ChPercent, ChDot, ChAt>>,   \* "\x02\x07"%.@
    <<ChQuote, 7, 0, ChQuote, ChSlash, ChDot, ChAt>>,   \* "\x07\x00"/.@
    <<ChAmp, ChAmp, ChSlash, ChDot, ChAt>>,   \* &&/.@
    <<ChAmp, ChAmp, ChPercent, ChDot, ChAt>>,   \* &&%.@
    <<ChAmp, ChAmp, ChMinus, ChDot, ChAt>>,   \* &&-.@
    <<ChQuote, 65, 66, ChQuote, ChBacktick, ChDot, ChAt>>,   \* "AB"`.@
    <<ChQuote, 66, 65, ChQuote, ChBacktick, ChDot, ChAt>>,   \* "BA"`.@
    <<ChQuote, 65, 65, ChQuote, ChBacktick, ChDot, ChAt>>,   \* "AA"`.@
    <<ChQuote, 65, ChQuote, ChBang, ChDot, ChAt>>,   \* "A"!.@
    \* One value on the stack, more popped
    <<ChQuote, 65, ChQuote, ChMinus, ChDot, ChAt>>,   \* "A"-.@
    <<ChQuote, 65, ChQuote, ChBackslash, ChDot, ChAt>>,   \* "A"\.@
    <<ChQuote, 65, ChQuote, Ch_p, ChAt>>,   \* "A"p@
    <<ChQuote, 65, ChQuote, ChSlash, ChAt>>,   \* "A"/@
    \* Stack instructions
    <<ChQuote, 65, 66, ChQuote, ChColon, ChDot, ChAt>>,   \* "AB":.@
    <<ChQuote, 65, 66, ChQuote, ChBackslash, ChDot, ChAt>>,   \* "AB"\.@
    <<ChQuote, 65, 66, ChQuote, ChDollar, ChDot, ChAt>>,   \* "AB"$.@
    <<ChQuote, 65, ChQuote, ChUnderscore, ChAt>>,   \* "A"_@
    <<ChQuote, 65, ChQuote, ChPipe>>,   \* "A"|
    \* The playfield instructions
    <<ChQuote, 65, 0, 0, ChQuote, Ch_p, ChQuote, 0, 0, ChQuote, Ch_g, ChDot, ChAt>>,   \* "A\x00\x00"p"\x00\x00"g.@
    <<ChQuote, 65, 1, 2, ChQuote, Ch_p, ChQuote, 1, 2, ChQuote, Ch_g, ChDot, ChAt>>,   \* "A\x01\x02"p"\x01\x02"g.@
    <<ChQuote, 65, 0, 200, ChQuote, Ch_p, ChAt>>,   \* "A\x00\xc8"p@
    <<ChQuote, 65, 25, 0, ChQuote, Ch_p, ChAt>>,   \* "A\x19\x00"p@
    <<ChQuote, 0, 200, ChQuote, Ch_g, ChDot, ChAt>>,   \* "\x00\xc8"g.@
    <<ChQuote, 25, 0, ChQuote, Ch_g, ChDot, ChAt>>,   \* "\x19\x00"g.@
    <<ChAmp, ChAmp, Ch_g, ChDot, ChAt>>,   \* &&g.@
    <<ChQuote, ChAt, 0, 5, ChQuote, Ch_p, SP, ChAt>>,   \* "@\x00\x05"p @
    <<ChAmp, ChQuote, 0, 0, ChQuote, Ch_p, ChAt>>,   \* &"\x00\x00"p@
    <<ChQuote, 200, 200, ChQuote, ChPlus, ChQuote, 0, 0, ChQuote, Ch_p, ChQuote, 0, 0, ChQuote, Ch_g, ChDot, ChAt>>,   \* "\xc8\xc8"+"\x00\x00"p"\x00\x00"g.@
    <<ChQuote, 65, 24, 79, ChQuote, Ch_p, ChQuote, 24, 79, ChQuote, Ch_g, ChDot, ChAt>>,   \* "A\x18O"p"\x18O"g.@
    <<ChQuote, 65, 0, 79, ChQuote, Ch_p, ChQuote, 0, 79, ChQuote, Ch_g, ChDot, ChAt>>,   \* "A\x00O"p"\x00O"g.@
    <<ChQuote, 65, 79, 0, ChQuote, Ch_p, ChAt>>,   \* "AO\x00"p@
    <<ChQuote, 79, 0, ChQuote, Ch_g, ChDot, ChAt>>,   \* "O\x00"g.@
    <<ChQuote, 65, 0, 80, ChQuote, Ch_p, ChAt>>,   \* "A\x00P"p@
    <<ChQuote, 0, 80, ChQuote, Ch_g, ChDot, ChAt>>,   \* "\x00P"g.@
    <<ChQuote, 65, ChQuote, ChAmp, ChAmp, Ch_p, ChAt>>    \* "A"&&p@
  }

\* What the reader holds at a call of step: nothing, "7\n", " -7\r\n", "x\n",
\* "200\n" and "+3" without a line end.
Readers ==
  {
    <<>>,
    <<55, LF>>,
    <<SP, ChMinus, 55, CR, LF>>,
    <<120, LF>>,
    <<50, 48, 48, LF>>,
    <<ChPlus, 51>>
  }

\* The byte streams of the specification of the loader: every stream of at
\* most MaxLen bytes over CR, LF and 'A' (65), and streams of LF or CR LF
\* terminated lines around the limits of 25 rows and 80 columns.
LoaderAlphabet == {CR, LF, 65}

Terminators == {<<LF>>, <<CR, LF>>}

ShortStreams == SeqsUpTo(LoaderAlphabet, MaxLen)

TallStreams ==
    {Times(Rep(65, w) \o t, k) \o tail :
        w \in {0, 1}, t \in Terminators, k \in {H - 1, H, H + 1},
        tail \in {<<>>, <<65>>}}

WideStreams ==
    {Times(t, k) \o Rep(65, w) \o tail :
        t \in Terminators, k \in {0, 1, H - 2}, w \in {W - 1, W, W + 1},
        tail \in {<<>>, <<LF>>, <<LF, 65>>}}

LoadStreams == ShortStreams \cup TallStreams \cup WideStreams

\* ------------------------------------------------------------ state

VARIABLES
    stream,     \* the byte stream given to from_stream
    load,       \* "pending", or what from_stream returned: "Ok" or the error
    playfield, stack, i, j, dir, bridge, string,   \* the fields of B93
    result,     \* what the last call of step returned (tag "none": no call yet)
    wrote,      \* the bytes the last call of step wrote to its writer
    nread       \* the number of bytes the last call consumed from its reader

engine == <<playfield, stack, i, j, dir, bridge, string>>
vars == <<stream, load, playfield, stack, i, j, dir, bridge, string,
          result, wrote, nread>>

\* The engine as one value.
Self ==
    [playfield |-> playfield, stack |-> stack, i |-> i, j |-> j, dir |-> dir,
     bridge |-> bridge, string |-> string]

SetSelf(self) ==
    /\ playfield' = self.playfield
    /\ stack' = self.stack
    /\ i' = self.i
    /\ j' = self.j
    /\ dir' = self.dir
    /\ bridge' = self.bridge
    /\ string' = self.string

InitWith(streams) ==
    /\ stream \in streams
    /\ load = "pending"
    /\ playfield = Default.playfield
    /\ stack = Default.stack
    /\ i = Default.i
    /\ j = Default.j
    /\ dir = Default.dir
    /\ bridge = Default.bridge
    /\ string = Default.string
    /\ result = NoReturn
    /\ wrote = <<>>
    /\ nread = 0

Init ==
    InitWith(Programs \cup BridgePrograms \cup StringPrograms \cup StackPrograms)

InitLoad == InitWith(LoadStreams)

\* B93::from_stream on the given stream.
FromStream ==
    /\ load = "pending"
    /\ LET r == from_stream(stream)
       IN  /\ load' = r.res
           /\ SetSelf(r.self)
    /\ UNCHANGED <<stream, result, wrote, nread>>

\* A step may leave the stack s: the model's bounds on its length and values.
WithinBounds(s) ==
    /\ Len(s) <= MaxStack
    /\ \A k \in 1..Len(s) : Abs(s[k]) <= MaxVal

\* One call of B93::step on the loaded engine, with any reader content and
\* any value of the generator.  step is a public method: it may be called
\* again after it returned Ok(None) or an error.  After a panic the thread
\* unwinds and step is not called again.
Step ==
    /\ load = "Ok"
    /\ result.tag # "panic"
    /\ \E rdr \in Readers, rnd \in 0..3 :
         LET a == step(Self, rdr, rnd)
         IN  /\ WithinBounds(a.self.stack)
             /\ SetSelf(a.self)
             /\ result' = a.ret
             /\ wrote' = a.wrote
             /\ nread' = a.nread
    /\ UNCHANGED <<stream, load>>

Next == FromStream \/ Step

NextLoad == FromStream

Spec == Init /\ [][Next]_vars

SpecLoad == InitLoad /\ [][NextLoad]_vars

\* ------------------------------------------------------------ the loader's claims

\* The first position of buf that holds LF.
FirstLF(buf) ==
    CHOOSE k \in 1..Len(buf) : buf[k] = LF /\ \A m \in 1..(k - 1) : buf[m] # LF

\* The lines of a byte stream as the format defines them: each line ends at
\* an LF, a CR immediately before that LF belongs to the line end, and bytes
\* after the last LF are a last line.
RECURSIVE SpecLines(_)
SpecLines(buf) ==
    IF buf = <<>> THEN <<>>
    ELSE IF \A k \in 1..Len(buf) : buf[k] # LF THEN <<buf>>
    ELSE LET k == FirstLF(buf)
             raw == SubSeq(buf, 1, k - 1)
             line == IF raw # <<>> /\ raw[Len(raw)] = CR
                     THEN SubSeq(raw, 1, Len(raw) - 1) ELSE raw
         IN  <<line>> \o SpecLines(SubSeq(buf, k + 1, Len(buf)))

FitsWidth(lines) == \A r \in 1..Len(lines) : Len(lines[r]) <= W

\* C1: from_stream fails with PlayfieldTooTall whenever the stream has more
\* than 25 lines, each of at most 80 characters, also when the lines past the
\* 25th are empty.
C1_TooTall ==
    (load # "pending" /\ Len(SpecLines(stream)) > H /\ FitsWidth(SpecLines(stream)))
        => load = "PlayfieldTooTall"

\* C2: from_stream fails with PlayfieldTooWide whenever one of the first 25
\* lines has more than 80 characters, and a stream of at most 25 lines whose
\* longest line has exactly 80 characters is accepted.
C2_TooWide ==
    LET lines == SpecLines(stream)
    IN  load # "pending" =>
          /\ (\E r \in 1..Len(lines) : r <= H /\ Len(lines[r]) > W)
                => load = "PlayfieldTooWide"
          /\ (/\ Len(lines) <= H
              /\ FitsWidth(lines)
              /\ \E r \in 1..Len(lines) : Len(lines[r]) = W)
                => load = "Ok"

\* A CR that no LF follows is named by neither claim C3 nor C4 as a line end
\* or as a character of a line.  Their formulas accept both readings, each
\* applied to the whole stream: such a CR is a byte of its line, or it ends a
\* line as an LF does.

\* The lines of a byte stream when a CR alone ends a line too.
RECURSIVE LinesCrEnds(_)
LinesCrEnds(buf) ==
    IF buf = <<>> THEN <<>>
    ELSE IF \A k \in 1..Len(buf) : buf[k] \notin {CR, LF} THEN <<buf>>
    ELSE LET k == CHOOSE n \in 1..Len(buf) :
                    buf[n] \in {CR, LF} /\ \A m \in 1..(n - 1) : buf[m] \notin {CR, LF}
             next == IF buf[k] = CR /\ k < Len(buf) /\ buf[k + 1] = LF
                     THEN k + 2 ELSE k + 1
         IN  <<SubSeq(buf, 1, k - 1)>> \o LinesCrEnds(SubSeq(buf, next, Len(buf)))

\* The line ends before position p: every LF, whether or not a CR comes
\* immediately before it (CR LF is one line end, a CR alone is none).
LineEndsBefore(buf, p) == Cardinality({k \in 1..(p - 1) : buf[k] = LF})

\* The same when a CR alone is a line end too: every CR, and every LF that
\* no CR immediately precedes.
LineEndsBeforeCr(buf, p) ==
    Cardinality({k \in 1..(p - 1) :
                   \/ buf[k] = CR
                   \/ buf[k] = LF /\ (k = 1 \/ buf[k - 1] # CR)})

\* The positions of the bytes of the stream that from_stream stores.
Stored == {p \in 1..Len(stream) :
             stream[p] \notin {CR, LF} /\ Loop(stream, p).err = "Ok"}

\* C3: every byte that from_stream stores is stored in the row whose number
\* is the number of line ends before it, where CR LF is one line end and an
\* LF that no CR immediately precedes is one line end (so an LF that follows
\* a CR and some ordinary bytes starts a new row).
C3_RowIsLineEnds ==
    load # "pending" =>
      \/ \A p \in Stored : Loop(stream, p - 1).i = LineEndsBefore(stream, p)
      \/ \A p \in Stored : Loop(stream, p - 1).i = LineEndsBeforeCr(stream, p)

\* The cell (r, c) of the playfield that the lines describe.
CellOf(lines, r, c) ==
    IF r < Len(lines) /\ c < Len(lines[r + 1]) THEN lines[r + 1][c + 1] ELSE SP

\* The lines fit the playfield, the stream loaded, cell (r, c) holds character
\* c of line r or a space, and the engine is in its initial state.
LoadedAs(lines) ==
    (Len(lines) <= H /\ FitsWidth(lines)) =>
      /\ load = "Ok"
      /\ \A r \in 0..(H - 1), c \in 0..(W - 1) :
           Cell(playfield, r, c) = CellOf(lines, r, c)
      /\ stack = <<>>
      /\ i = 0 /\ j = 0
      /\ dir = "Right"
      /\ ~bridge /\ ~string

\* C4: a stream of at most 25 lines of at most 80 characters loads, cell
\* (r, c) holds character c of line r or a space, and the engine starts with
\* an empty stack at (0,0), direction Right, both flags clear.
C4_LoadedPlayfield ==
    load # "pending" => (LoadedAs(SpecLines(stream)) \/ LoadedAs(LinesCrEnds(stream)))

\* ------------------------------------------------------------ the engine's claims

\* A transition from a state with load = "Ok" is a call of step; result',
\* wrote' and nread' are what that call returned, wrote and consumed.

\* The mode of the engine before a step.
Normal == load = "Ok" /\ ~bridge /\ ~string

\* The cell at the pointer.
CellAtPointer == Cell(playfield, i, j)

\* The pointer moves one cell in direction d with wraparound; the other
\* coordinate stays.
MovedOne(d) ==
    CASE d = "Up" -> i' = (IF i = 0 THEN H - 1 ELSE i - 1) /\ j' = j
      [] d = "Down" -> i' = (IF i = H - 1 THEN 0 ELSE i + 1) /\ j' = j
      [] d = "Left" -> j' = (IF j = 0 THEN W - 1 ELSE j - 1) /\ i' = i
      [] d = "Right" -> j' = (IF j = W - 1 THEN 0 ELSE j + 1) /\ i' = i

\* C5: whatever steps were taken from a loaded playfield, the pointer is in
\* rows 0..24 and columns 0..79.
C5_PointerInPlayfield == load = "Ok" => (i \in 0..24 /\ j \in 0..79)

\* A step has wrapped the pointer from row 0 to row 24.
C5_Witness == load = "Ok" /\ result = OkSome /\ dir = "Up" /\ i = 24

\* C6: a step that returns "continue" moves the pointer exactly one cell along
\* one axis, in the direction held after the step, with toroidal wrap.
C6_ContinueMovesOneCell ==
    [][(load = "Ok" /\ result' = OkSome) => MovedOne(dir')]_vars

\* '<' at (0,0) has set the direction and the same step has moved the pointer
\* in the new direction, from column 0 to column 79.
C6_Witness ==
    /\ load = "Ok" /\ result = OkSome
    /\ Cell(playfield, 0, 0) = ChLt
    /\ dir = "Left" /\ i = 0 /\ j = W - 1

\* C7: in normal mode a step on '@' returns "halt", leaves the pointer,
\* direction, stack, playfield and flags as they are, writes nothing and reads
\* nothing; and once a step has returned "halt", every later step does.
C7_HaltChangesNothing ==
    [][/\ (Normal /\ CellAtPointer = ChAt) =>
            /\ result' = OkNone
            /\ UNCHANGED engine
            /\ wrote' = <<>> /\ nread' = 0
       /\ (load = "Ok" /\ result = OkNone) => result' = OkNone]_vars

\* The engine has halted on '@' with three values on its stack.
C7_Witness ==
    /\ load = "Ok" /\ result = OkNone
    /\ CellAtPointer = ChAt
    /\ Len(stack) = 3

\* The number of values an instruction pops.
NPops(c) ==
    CASE c \in {ChDollar, ChDot, ChComma, ChBang, ChUnderscore, ChPipe} -> 1
      [] c \in {ChPlus, ChMinus, ChStar, ChSlash, ChPercent, ChBackslash,
                ChBacktick, Ch_g} -> 2
      [] c = Ch_p -> 3
      [] OTHER -> 0

\* The stack s with zeros below it up to the length n.
Padded(s, n) == IF Len(s) < n THEN Rep(0, n - Len(s)) \o s ELSE s

\* C8: '$' on an empty stack leaves it empty and continues; '.' on an empty
\* stack writes "0 " and continues; and a step on an instruction that pops
\* more values than the stack holds does exactly what it does when the
\* missing values are zeros on the stack.
C8_EmptyPopsZero ==
    [][/\ (Normal /\ stack = <<>> /\ CellAtPointer = ChDollar) =>
            (stack' = <<>> /\ result' = OkSome)
       /\ (Normal /\ stack = <<>> /\ CellAtPointer = ChDot) =>
            (wrote' = <<48, SP>> /\ stack' = <<>> /\ result' = OkSome)
       /\ (Normal /\ Len(stack) < NPops(CellAtPointer)) =>
            \A rdr \in Readers, rnd \in 0..3 :
               step(Self, rdr, rnd) =
                 step([Self EXCEPT !.stack = Padded(stack, NPops(CellAtPointer))],
                      rdr, rnd)]_vars

\* '$' at (0,0) and then '.' at (0,1) have run on an empty stack: the stack is
\* empty, "0 " was written and the pointer is at (0,2).
C8_Witness ==
    /\ load = "Ok" /\ result = OkSome
    /\ Cell(playfield, 0, 0) = ChDollar /\ Cell(playfield, 0, 1) = ChDot
    /\ i = 0 /\ j = 2 /\ dir = "Right"
    /\ stack = <<>> /\ wrote = <<48, SP>>

\* C9: a step with the bridge flag set clears the flag, moves the pointer one
\* cell and continues, whatever the cell holds, with stack, playfield,
\* direction and string flag unchanged and no I/O; and '#' in normal mode sets
\* the flag and moves the pointer one cell, so the cell after '#' is skipped.
C9_BridgeSkipsCell ==
    [][/\ (load = "Ok" /\ bridge) =>
            /\ ~bridge'
            /\ result' = OkSome
            /\ MovedOne(dir)
            /\ UNCHANGED <<stack, playfield, dir, string>>
            /\ wrote' = <<>> /\ nread' = 0
       /\ (Normal /\ CellAtPointer = ChHash) =>
            /\ bridge'
            /\ result' = OkSome
            /\ MovedOne(dir)
            /\ UNCHANGED <<stack, playfield, dir, string>>]_vars

\* The pointer has passed from '#' at (0,0) over '@' at (0,1) to (0,2) and the
\* engine has not halted.
C9_Witness ==
    /\ load = "Ok" /\ result = OkSome /\ ~bridge
    /\ Cell(playfield, 0, 0) = ChHash /\ Cell(playfield, 0, 1) = ChAt
    /\ i = 0 /\ j = 2 /\ dir = "Right"

\* C10: a step in string mode continues, moves the pointer one cell and
\* leaves direction, playfield and bridge as they are; on '"' it clears string
\* mode and pushes nothing, on any other byte it pushes the byte and stays in
\* string mode.
C10_StringModeStep ==
    [][(load = "Ok" /\ string /\ ~bridge) =>
          /\ result' = OkSome
          /\ MovedOne(dir)
          /\ UNCHANGED <<dir, playfield, bridge>>
          /\ wrote' = <<>> /\ nread' = 0
          /\ IF CellAtPointer = ChQuote
             THEN ~string' /\ stack' = stack
             ELSE string' /\ stack' = Append(stack, CellAtPointer)]_vars

\* String mode has pushed '@' and then '#' and is still on.
C10_Witness == load = "Ok" /\ string /\ stack = <<ChAt, ChHash>>

\* ------------------------------------------------------------ the instructions' claims

\* The value a pop yields from the stack s, and s after that pop.
Top(s) == IF s = <<>> THEN 0 ELSE s[Len(s)]

Below(s) == IF s = <<>> THEN <<>> ELSE SubSeq(s, 1, Len(s) - 1)

\* C11: in normal mode ',' pops v; when v < 0 or v > 127 the step fails with
\* InvalidCharacter(v), writes nothing, and leaves v popped and the pointer
\* where it was; when 0 <= v <= 127 the step writes the one byte v, moves the
\* pointer one cell and continues.
C11_CommaRangeCheck ==
    [][(Normal /\ CellAtPointer = ChComma) =>
          LET v == Top(stack)
          IN  /\ stack' = Below(stack)
              /\ UNCHANGED <<playfield, dir, bridge, string>>
              /\ nread' = 0
              /\ IF v < 0 \/ v > 127
                 THEN /\ result' = Ret("InvalidCharacter", v, <<>>)
                      /\ wrote' = <<>>
                      /\ i' = i /\ j' = j
                 ELSE /\ result' = OkSome
                      /\ wrote' = <<v>>
                      /\ MovedOne(dir)]_vars

\* ',' has failed on the value 200: the value is off the stack and the
\* pointer is still on the ','.
C11_Witness ==
    /\ load = "Ok" /\ result = Ret("InvalidCharacter", 200, <<>>)
    /\ CellAtPointer = ChComma
    /\ stack = <<>> /\ wrote = <<>>

\* The arithmetic instructions.
Arithmetic == {ChPlus, ChMinus, ChStar, ChSlash, ChPercent}

\* x OP y for the instruction c (y is not 0 for '/' and '%').
Applied(c, x, y) ==
    CASE c = ChPlus -> x + y
      [] c = ChMinus -> x - y
      [] c = ChStar -> x * y
      [] c = ChSlash -> TruncDiv(x, y)
      [] c = ChPercent -> TruncRem(x, y)

\* C12: in normal mode '+', '-', '*', '/' and '%' pop y (the top) and then x
\* and push x OP y, the second-popped value being the left operand: 7 below 2
\* and '-' leave 5.  ('/' and '%' with y = 0 are left to C13.)
C12_ArithmeticOrder ==
    [][(/\ Normal
        /\ CellAtPointer \in Arithmetic
        /\ ~(CellAtPointer \in {ChSlash, ChPercent} /\ Top(stack) = 0)) =>
          LET y == Top(stack)
              x == Top(Below(stack))
          IN  /\ result' = OkSome
              /\ stack' = Append(Below(Below(stack)), Applied(CellAtPointer, x, y))]_vars

\* C13: in normal mode a step on '/' or '%' whose divisor, the value on top
\* of the stack (0 when the stack is empty), is 0 ends in a division fault:
\* it does not continue and pushes no result.
C13_DivisionByZeroFaults ==
    [][(Normal /\ CellAtPointer \in {ChSlash, ChPercent} /\ Top(stack) = 0) =>
          (result' = Panic /\ Len(stack') <= Len(Below(Below(stack))))]_vars

\* C14: in normal mode ':' appends to the stack a copy of its bottom element,
\* or 0 when the stack is empty; the elements already there stay, and the
\* step moves the pointer one cell and continues.
C14_DupCopiesBottom ==
    [][(Normal /\ CellAtPointer = ChColon) =>
          /\ stack' = Append(stack, IF stack = <<>> THEN 0 ELSE stack[1])
          /\ result' = OkSome
          /\ MovedOne(dir)
          /\ UNCHANGED <<playfield, dir, bridge, string>>]_vars

\* ':' has run on the stack 'A' below 'B' and has copied 'A', the bottom.
C14_Witness ==
    /\ load = "Ok" /\ result = OkSome
    /\ stack = <<65, 66, 65>>
    /\ Cell(playfield, i, (j + W - 1) % W) = ChColon

\* The coordinates name a cell: row x, column y.
InBounds(x, y) == x \in 0..(H - 1) /\ y \in 0..(W - 1)

\* Every cell but (x, y) holds after the step what it held before.
OtherCellsUnchanged(x, y) ==
    \A r \in 0..(H - 1), c \in 0..(W - 1) :
       <<r, c>> # <<x, y>> => Cell(playfield', r, c) = Cell(playfield, r, c)

\* The engine after the step, with the stack s.
SelfAfterWith(s) ==
    [playfield |-> playfield', stack |-> s, i |-> i', j |-> j', dir |-> dir',
     bridge |-> bridge', string |-> string']

\* C15: in normal mode 'p' on v, x, y (y on top) with row x in 0..24 and
\* column y in 0..79 pops the three, makes cell (x, y) hold v mod 256 and
\* changes no other cell, and 'g' on x, y then pushes v mod 256; 'g' on x, y
\* in those ranges pops both and pushes the byte of row x, column y.
C15_PutThenGet ==
    [][LET y == Top(stack)
           x == Top(Below(stack))
           v == Top(Below(Below(stack)))
       IN  /\ (Normal /\ CellAtPointer = Ch_p /\ InBounds(x, y)) =>
                /\ result' = OkSome
                /\ stack' = Below(Below(Below(stack)))
                /\ Cell(playfield', x, y) = v % 256
                /\ OtherCellsUnchanged(x, y)
                /\ Arm_g(SelfAfterWith(<<x, y>>)).self.stack = <<v % 256>>
           /\ (Normal /\ CellAtPointer = Ch_g /\ InBounds(x, y)) =>
                /\ result' = OkSome
                /\ stack' = Append(Below(Below(stack)), Cell(playfield, x, y))]_vars

\* 'p' has put 400 at (0,0) and a later 'g' has read (0,0): the cell and the
\* stack hold 144, which is 400 mod 256.
C15_Witness ==
    /\ load = "Ok" /\ result = OkSome
    /\ Cell(playfield, 0, 0) = 144
    /\ stack = <<144>>
    /\ Cell(playfield, i, (j + W - 1) % W) = Ch_g

\* C16: in normal mode, with x outside 0..24 or y outside 0..79, 'g' pops
\* both and pushes 32 and 'p' pops its three operands and changes no cell;
\* both steps move the pointer one cell and continue.
C16_OutOfBoundsIgnored ==
    [][LET y == Top(stack)
           x == Top(Below(stack))
       IN  /\ (Normal /\ CellAtPointer = Ch_g /\ ~InBounds(x, y)) =>
                /\ stack' = Append(Below(Below(stack)), 32)
                /\ playfield' = playfield
                /\ result' = OkSome
                /\ MovedOne(dir)
           /\ (Normal /\ CellAtPointer = Ch_p /\ ~InBounds(x, y)) =>
                /\ stack' = Below(Below(Below(stack)))
                /\ playfield' = playfield
                /\ result' = OkSome
                /\ MovedOne(dir)]_vars

\* 'g' has run on row 0, column 200 and has pushed 32.
C16_Witness ==
    /\ load = "Ok" /\ result = OkSome
    /\ Cell(playfield, 0, 1) = 0 /\ Cell(playfield, 0, 2) = 200
    /\ Cell(playfield, 0, 4) = Ch_g
    /\ i = 0 /\ j = 5
    /\ stack = <<32>>

\* The direction the generator's value stands for.
GeneratorDirection(n) ==
    CASE n = 0 -> "Up" [] n = 1 -> "Down" [] n = 2 -> "Left" [] n = 3 -> "Right"

\* C17: in normal mode a step on '?' with the generator's value n sets the
\* direction that n stands for (0 Up, 1 Down, 2 Left, 3 Right), whatever the
\* reader holds, moves the pointer one cell in that direction, continues and
\* leaves the stack, the playfield and the flags as they are.
C17_RandomDirection ==
    [][(Normal /\ CellAtPointer = ChQuestion) =>
          /\ \A rdr \in Readers, n \in 0..3 :
               LET a == step(Self, rdr, n)
               IN  /\ a.ret = OkSome
                   /\ a.self.dir = GeneratorDirection(n)
                   /\ a.self = advance_pc([Self EXCEPT !.dir = GeneratorDirection(n)])
          /\ result' = OkSome
          /\ MovedOne(dir')
          /\ UNCHANGED <<stack, playfield, bridge, string>>
          /\ wrote' = <<>> /\ nread' = 0]_vars

\* '?' at (0,0) has set the direction Left and the pointer has moved from
\* column 0 to column 79.
C17_Witness ==
    /\ load = "Ok" /\ result = OkSome
    /\ Cell(playfield, 0, 0) = ChQuestion
    /\ dir = "Left" /\ i = 0 /\ j = W - 1

\* C18: a step changes the playfield only when it is 'p' in normal mode with
\* row x in 0..24 and column y in 0..79, and then no cell but (x, y) changes.
C18_OnlyPutWrites ==
    [][load = "Ok" =>
          \/ playfield' = playfield
          \/ /\ Normal
             /\ CellAtPointer = Ch_p
             /\ InBounds(Top(Below(stack)), Top(stack))
             /\ OtherCellsUnchanged(Top(Below(stack)), Top(stack))]_vars

\* 'p' has put 'A' in row 1, column 2 of a playfield loaded from one line.
C18_Witness ==
    /\ load = "Ok" /\ result = OkSome
    /\ \A k \in 1..Len(stream) : stream[k] \notin {CR, LF}
    /\ Cell(playfield, 1, 2) = 65
    /\ Cell(playfield, i, (j + W - 1) % W) = Ch_p

\* C19: the bridge flag and the string flag are never both set; a step sets
\* the bridge flag only on '#' in normal mode and the string flag only on '"'
\* in normal mode, and a step with the bridge flag set clears it.
C19_FlagsExclusive ==
    [][/\ ~(bridge /\ string)
       /\ ~(bridge' /\ string')
       /\ (~bridge /\ bridge') => (Normal /\ CellAtPointer = ChHash)
       /\ (~string /\ string') => (Normal /\ CellAtPointer = ChQuote)
       /\ (load = "Ok" /\ bridge) => ~bridge']_vars

\* String mode has met '#': the byte is on the stack and the bridge flag is
\* clear.
C19_Witness == load = "Ok" /\ string /\ ~bridge /\ stack = <<ChHash>>

\* C20: in normal mode a step on a byte that is no instruction fails with
\* InvalidInstruction(byte), changes nothing of the engine, writes nothing
\* and reads nothing; and once a step has failed with InvalidInstruction,
\* every later step fails with the same error.
C20_InvalidInstructionStays ==
    [][/\ (Normal /\ CellAtPointer \notin Instructions) =>
            /\ result' = Ret("InvalidInstruction", CellAtPointer, <<>>)
            /\ UNCHANGED engine
            /\ wrote' = <<>> /\ nread' = 0
       /\ (load = "Ok" /\ result.tag = "InvalidInstruction") => result' = result]_vars

\* A step has failed on the digit '9' at (0,1) and the pointer is still
\* there.
C20_Witness ==
    /\ load = "Ok" /\ result = Ret("InvalidInstruction", 57, <<>>)
    /\ CellAtPointer = 57
    /\ i = 0 /\ j = 1 /\ dir = "Right" /\ stack = <<>>

====
